---- MODULE Spec2Model ----
(***************************************************************************)
(* Points ledger and redemption engine of api-fidelidad.                   *)
(*                                                                         *)
(* The database collections (Usuario, QrToken, Transaccion, Recompensa,    *)
(* Canje) are the state.  Every controller is an async handler: it runs    *)
(* without interruption up to each `await` on a storage call, so each      *)
(* storage call of a handler is one atomic step and the steps of different *)
(* requests interleave.  A Mongoose `save()` sends only the paths the      *)
(* handler modified ($set of the value held locally, $push of a new array  *)
(* element); the schemas set versionKey: false, so no save is rejected     *)
(* because the document changed in between.                                *)
(***************************************************************************)
EXTENDS Integers, Sequences, FiniteSets, TLC

\* ---------------------------------------------------------------- bounds
MaxOps == 2              \* requests (handler invocations) started in a run
MaxTokens == 2           \* QR tokens generated in a run
MaxTime == 2             \* the clock runs 0..MaxTime
ExpirationSeconds == 1   \* QR_EXPIRATION_SECONDS, in clock ticks
ExpireAfterSeconds == 2  \* expireAfterSeconds of the TTL index, in clock ticks
MaxTimeToken == 4        \* the clock of the token specification runs 0..MaxTimeToken

Clientes == {"c1"}
ClientesDos == {"c1", "c2"}     \* the customers of the locality specification
Empresas == {"e1", "e2"}
Recompensas == {"r1", "r2", "r3", "r4"}
Procs == {1, 2}
Montos == {0, 99, 250}
Codigos == {"CJ-1", "CJ-2", "CJ-3"}   \* the codes generarCodigoCanje can draw
Notificaciones == {"enviada", "sinSocket", "lanza"}   \* outcomes of a notification
Nombres == {"cafe", "te"}       \* reward names

\* configuracionPuntos of each business (req.usuario of the request)
configuracionPuntos ==
    [e \in Empresas |->
        IF e = "e1" THEN [gastoRequerido |-> 100, puntosOtorgados |-> 1]
                    ELSE [gastoRequerido |-> 50, puntosOtorgados |-> 2]]

VARIABLES
    now,                \* wall clock (new Date())
    puntos,             \* Usuario.puntos of each customer
    puntosPorEmpresa,   \* Usuario.puntosPorEmpresa: array of [empresa, puntos]
    activo,             \* the account of each customer: Usuario.activo ("si" or
                        \* "no"), or "eliminado" when the document is gone
    totalTransacciones, \* Usuario.totalTransacciones of each business
    qrTokens,           \* QrToken collection, token id = index
    transacciones,      \* Transaccion collection, in insertion order
    recompensas,        \* Recompensa collection
    canjes,             \* Canje collection, canje id = index
    req,                \* the request each worker is handling, with its locals
    ops,                \* number of requests started so far
    obs                 \* history per canje, kept only to state properties

vars == <<now, puntos, puntosPorEmpresa, activo, totalTransacciones, qrTokens,
          transacciones, recompensas, canjes, req, ops, obs>>

ledger == <<puntos, puntosPorEmpresa>>
catalogo == <<recompensas, canjes, obs>>

\* ---------------------------------------------------------------- helpers
Max(a, b) == IF a >= b THEN a ELSE b

\* Array.prototype.findIndex over puntosPorEmpresa; 0 stands for -1 (not found)
FindIndex(arr, e) ==
    IF \E i \in 1..Len(arr) : arr[i].empresa = e
    THEN CHOOSE i \in 1..Len(arr) :
            /\ arr[i].empresa = e
            /\ \A j \in 1..(i - 1) : arr[j].empresa # e
    ELSE 0

RECURSIVE SumaPuntos(_)
SumaPuntos(arr) ==
    IF arr = <<>> THEN 0 ELSE Head(arr).puntos + SumaPuntos(Tail(arr))

\* sum of the points of every entry of business e (one entry, if the array is a map)
RECURSIVE PuntosEn(_, _)
PuntosEn(arr, e) ==
    IF arr = <<>> THEN 0
    ELSE (IF Head(arr).empresa = e THEN Head(arr).puntos ELSE 0) + PuntosEn(Tail(arr), e)

Idle == [op |-> "ninguna", pc |-> "idle"]
Libre(p) == req[p].pc \in {"idle", "fin"}
Quieto == \A p \in Procs : Libre(p)

\* a request is taken by a free worker; workers are first used in order
Toma(p) ==
    /\ Libre(p)
    /\ \A q \in Procs : q < p => req[q].pc # "idle"
    /\ ops < MaxOps

\* a handler returns: its response (and the inputs in `datos`) is kept until the
\* worker takes a new request
Terminar(p, r, datos) ==
    [req EXCEPT ![p] = [op |-> req[p].op, pc |-> "fin", res |-> r] @@ datos]

\* what a notificar* method of notificacionService returns: true when it
\* emitted to the socket, false without an active socket or when it threw
\* (the error is caught inside the method)
notificar(n) == n = "enviada"

respondeSegunAviso(n) == IF n = "lanza" THEN "ERROR_500" ELSE "OK"

\* the answer of a handler whose writes are done: it awaits the notification,
\* does not look at what it returns, and answers success
responde(n) == "OK"

\* the last step of a successful handler: notification, then the response
Responder(p, datos) ==
    \E n \in Notificaciones :
        req' = Terminar(p, responde(n), datos @@ [notificado |-> notificar(n)])

\* an awaited storage call of the handler throws: the catch block answers 500
Falla(p) ==
    /\ ~Libre(p)
    /\ req' = Terminar(p, "ERROR_500", [fallo |-> req[p].pc])
    /\ UNCHANGED <<now, puntos, puntosPorEmpresa, activo, totalTransacciones, qrTokens,
                   transacciones, recompensas, canjes, ops, obs>>

\* ---------------------------------------------------------------- QrToken
estaExpiradoUnInstante(tok) == now = tok.expiraEn + 1

\* qrTokenSchema.methods.estaExpirado
estaExpirado(tok) == now > tok.expiraEn

\* QrService.generarQR (ClienteController.generarQR): one insert; verificarToken
\* lets only an existing, active account through
GenerarQR(c) ==
    /\ Len(qrTokens) < MaxTokens
    /\ activo[c] = "si"
    /\ qrTokens' = Append(qrTokens,
            [clienteId |-> c, datosCliente |-> puntos[c],
             expiraEn |-> now + ExpirationSeconds,
             usado |-> FALSE, usadoPor |-> "null", documento |-> "guardado"])
    /\ UNCHANGED <<now, ledger, activo, totalTransacciones, transacciones,
                   catalogo, req, ops>>

\* QrToken.findOne({ token }) finds a document: t was generated and has not
\* been purged (a purged document keeps its place in the sequence)
Guardado(t) == t \in 1..Len(qrTokens) /\ qrTokens[t].documento = "guardado"

validarQRUsadoPrimero(t) ==
    IF ~Guardado(t) THEN "QR_NOT_FOUND"
    ELSE IF qrTokens[t].usado THEN "QR_USED"
    ELSE IF estaExpirado(qrTokens[t]) THEN "QR_EXPIRED"
    ELSE IF activo[qrTokens[t].clienteId] = "eliminado" THEN "CLIENT_NOT_FOUND"
    ELSE IF activo[qrTokens[t].clienteId] # "si" THEN "CLIENT_INACTIVE"
    ELSE "QR_VALID"

\* QrService.validarQR: the codigo it returns for token t
validarQR(t) ==
    IF ~Guardado(t) THEN "QR_NOT_FOUND"
    ELSE IF estaExpirado(qrTokens[t]) THEN "QR_EXPIRED"
    ELSE IF qrTokens[t].usado THEN "QR_USED"
    ELSE IF activo[qrTokens[t].clienteId] = "eliminado" THEN "CLIENT_NOT_FOUND"
    ELSE IF activo[qrTokens[t].clienteId] # "si" THEN "CLIENT_INACTIVE"
    ELSE "QR_VALID"

validarQRConsume(t) ==
    IF Guardado(t)
    THEN [qrTokens EXCEPT ![t] = [@ EXCEPT !.usado = TRUE]]
    ELSE qrTokens

\* the QrToken collection after validarQR: findOne and populate only read
validarQRDeja(t) == qrTokens

\* EmpresaController.leerQR: validarQR and the answer, 200 or 400 with the codigo
LeerQR(p, e, t) ==
    /\ Toma(p)
    /\ ops' = ops + 1
    /\ qrTokens' = validarQRDeja(t)
    /\ req' = [req EXCEPT ![p] = [op |-> "leerQR", pc |-> "fin",
                  res |-> IF validarQR(t) = "QR_VALID" THEN "OK" ELSE validarQR(t),
                  empresa |-> e, token |-> t]]
    /\ UNCHANGED <<now, ledger, activo, totalTransacciones, transacciones, catalogo>>

marcarComoUsadoSinEfecto(t, e) == qrTokens

\* QrService.marcarComoUsado: findOneAndUpdate({token}, {usado, usadoPor}, {new})
\* the collection after the call
marcarComoUsado(t, e) ==
    IF Guardado(t)
    THEN [qrTokens EXCEPT ![t] = [@ EXCEPT !.usado = TRUE, !.usadoPor = e]]
    ELSE qrTokens

\* what marcarComoUsado returns: the updated document, or null
marcarComoUsadoDevuelve(t) == Guardado(t)

\* the clock advances, up to max
Reloj(max) ==
    /\ now < max
    /\ now' = now + 1
    /\ UNCHANGED <<ledger, activo, totalTransacciones, qrTokens, transacciones,
                   catalogo, req, ops>>

Tick == Reloj(MaxTime)

limpiarTodos(tok) == TRUE

\* the filter of limpiarExpirados: { expiraEn: { $lt: new Date() } }
limpiarFiltro(tok) == tok.expiraEn < now

\* the TTL index { expiraEn: 1 }, expireAfterSeconds: the documents the TTL
\* monitor may delete
venceTTL(tok) == tok.expiraEn + ExpireAfterSeconds <= now

\* the QrToken collection after the documents of the tokens in ts are deleted
Purgar(ts) ==
    [t \in 1..Len(qrTokens) |->
        IF t \in ts THEN [qrTokens[t] EXCEPT !.documento = "purgado"]
        ELSE qrTokens[t]]

\* qrTokenSchema.statics.limpiarExpirados
LimpiarExpirados ==
    /\ qrTokens' = Purgar({t \in 1..Len(qrTokens) : limpiarFiltro(qrTokens[t])})
    /\ qrTokens' # qrTokens
    /\ UNCHANGED <<now, ledger, activo, totalTransacciones, transacciones,
                   catalogo, req, ops>>

\* a pass of the TTL monitor of the database
PurgaTTL ==
    /\ qrTokens' = Purgar({t \in 1..Len(qrTokens) : venceTTL(qrTokens[t])})
    /\ qrTokens' # qrTokens
    /\ UNCHANGED <<now, ledger, activo, totalTransacciones, transacciones,
                   catalogo, req, ops>>

\* the account of customer c is deactivated, reactivated or deleted by the
\* administration of the database (no handler writes Usuario.activo); a
\* deleted account does not come back
Administrar(c, estado) ==
    /\ activo[c] # "eliminado"
    /\ estado # activo[c]
    /\ activo' = [activo EXCEPT ![c] = estado]
    /\ UNCHANGED <<now, ledger, totalTransacciones, qrTokens, transacciones,
                   catalogo, req, ops>>

\* ---------------------------------------------------------------- agregarPuntos
puntosCalculadosProporcional(e, monto) ==
    (monto * configuracionPuntos[e].puntosOtorgados)
        \div configuracionPuntos[e].gastoRequerido

\* Math.floor(montoNumerico / gastoRequerido) * puntosOtorgados
puntosCalculados(e, monto) ==
    (monto \div configuracionPuntos[e].gastoRequerido)
        * configuracionPuntos[e].puntosOtorgados

revisaTokenPrimero(t, monto) ==
    IF validarQR(t) # "QR_VALID" THEN validarQR(t)
    ELSE IF monto <= 0 THEN "MONTO_INVALIDO"
    ELSE "QR_VALID"

\* the validations of agregarPuntos, in the order the handler makes them: the
\* amount first, then qrService.validarQR on the token
revisaPeticion(t, monto) ==
    IF monto <= 0 THEN "MONTO_INVALIDO" ELSE validarQR(t)

\* request validation and qrService.validarQR
AgregarPuntosValidar(p, e, t, monto) ==
    /\ Toma(p)
    /\ ops' = ops + 1
    /\ req' = IF revisaPeticion(t, monto) # "QR_VALID"
              THEN [req EXCEPT ![p] = [op |-> "agregarPuntos", pc |-> "fin",
                        res |-> revisaPeticion(t, monto), empresa |-> e, token |-> t]]
              ELSE [req EXCEPT ![p] = [op |-> "agregarPuntos", pc |-> "findCliente",
                        empresa |-> e, token |-> t, monto |-> monto,
                        cliente |-> qrTokens[t].clienteId,
                        calc |-> puntosCalculados(e, monto)]]
    /\ UNCHANGED <<now, ledger, activo, totalTransacciones, qrTokens,
                   transacciones, catalogo>>

\* const cliente = await Usuario.findById(...): the handler's copy of the document
\* (null when the account is gone: reading cliente.puntos throws, res 500)
AgregarPuntosLeerCliente(p) ==
    /\ req[p].op = "agregarPuntos" /\ req[p].pc = "findCliente"
    /\ LET c == req[p].cliente
           i == FindIndex(puntosPorEmpresa[c], req[p].empresa)
       IN  req' = IF activo[c] = "eliminado"
                  THEN Terminar(p, "ERROR_500", [fallo |-> "sinCliente"])
                  ELSE [req EXCEPT ![p] = [@ EXCEPT !.pc = "saveCliente"] @@
                     [puntosAnteriores |-> puntos[c],
                      indexEmpresa |-> i,
                      puntosEmpresa |-> IF i > 0 THEN puntosPorEmpresa[c][i].puntos ELSE 0]]
    /\ UNCHANGED <<now, ledger, activo, totalTransacciones, qrTokens,
                   transacciones, catalogo, ops>>

GuardarPuntosDeTodos(c, leido, d) == [x \in DOMAIN puntos |-> leido + d]

\* the customer document after `cliente.save()` of a handler that added d points
\* to the copy it read: modified paths only
GuardarPuntos(c, leido, d) ==
    IF d # 0 THEN [puntos EXCEPT ![c] = leido + d] ELSE puntos

GuardarPuntosPorEmpresa(c, e, i, leido, d) ==
    IF i > 0
    THEN IF d # 0
         THEN [puntosPorEmpresa EXCEPT ![c][i].puntos = leido + d]
         ELSE puntosPorEmpresa
    ELSE [puntosPorEmpresa EXCEPT ![c] = Append(@, [empresa |-> e, puntos |-> d])]

\* cliente.puntos += ...; puntosPorEmpresa[...] += ... or push; await cliente.save()
\* (save() throws when the document was deleted since it was read, res 500)
AgregarPuntosGuardarCliente(p) ==
    /\ req[p].op = "agregarPuntos" /\ req[p].pc = "saveCliente"
    /\ LET r == req[p] IN
        IF activo[r.cliente] = "eliminado"
        THEN /\ req' = Terminar(p, "ERROR_500", [fallo |-> "sinCliente"])
             /\ UNCHANGED ledger
        ELSE /\ puntos' = GuardarPuntos(r.cliente, r.puntosAnteriores, r.calc)
             /\ puntosPorEmpresa' = GuardarPuntosPorEmpresa(r.cliente, r.empresa,
                                         r.indexEmpresa, r.puntosEmpresa, r.calc)
             /\ req' = [req EXCEPT ![p].pc = "incEmpresa"]
    /\ UNCHANGED <<now, activo, totalTransacciones, qrTokens, transacciones,
                   catalogo, ops>>

\* Usuario.findByIdAndUpdate(empresaId, {$inc: {totalTransacciones: 1, ...}})
AgregarPuntosIncEmpresa(p) ==
    /\ req[p].op = "agregarPuntos" /\ req[p].pc = "incEmpresa"
    /\ totalTransacciones' = [totalTransacciones EXCEPT ![req[p].empresa] = @ + 1]
    /\ req' = [req EXCEPT ![p].pc = "saveTransaccion"]
    /\ UNCHANGED <<now, ledger, activo, qrTokens, transacciones, catalogo, ops>>

\* new Transaccion({...}).save()
AgregarPuntosGuardarTransaccion(p) ==
    /\ req[p].op = "agregarPuntos" /\ req[p].pc = "saveTransaccion"
    /\ LET r == req[p] IN
        transacciones' = Append(transacciones,
            [cliente |-> r.cliente, empresa |-> r.empresa, monto |-> r.monto,
             puntosOtorgados |-> r.calc,
             puntosAnteriores |-> r.puntosAnteriores,
             puntosNuevos |-> r.puntosAnteriores + r.calc,
             qrToken |-> r.token])
    /\ req' = [req EXCEPT ![p].pc = "marcarUsado"]
    /\ UNCHANGED <<now, ledger, activo, totalTransacciones, qrTokens, catalogo, ops>>

\* await qrService.marcarComoUsado(token, empresaId); the notification that
\* follows changes nothing; res 200
AgregarPuntosMarcarUsado(p) ==
    /\ req[p].op = "agregarPuntos" /\ req[p].pc = "marcarUsado"
    /\ qrTokens' = marcarComoUsado(req[p].token, req[p].empresa)
    /\ Responder(p,
                 [empresa |-> req[p].empresa, token |-> req[p].token,
                  cliente |-> req[p].cliente, calc |-> req[p].calc,
                  marcado |-> marcarComoUsadoDevuelve(req[p].token)])
    /\ UNCHANGED <<now, ledger, activo, totalTransacciones, transacciones,
                   catalogo, ops>>

\* ---------------------------------------------------------------- canjear
\* what a Redeem sees before it starts, kept to state the reversal property
Antes(c, r) ==
    [puntos |-> puntos[c],
     enEmpresa |-> PuntosEn(puntosPorEmpresa[c], recompensas[r].empresa),
     stock |-> recompensas[r].stock,
     canjesRealizados |-> recompensas[r].canjesRealizados]

tieneStockDesdeCero(rec) == rec.stock = -1 \/ rec.stock >= 0

\* the Recompensa document r is in the collection (created and not deleted)
Existe(r) == recompensas[r].documento = "guardado"

\* recompensaSchema.methods.tieneStock, as canjear tests it
tieneStock(rec) == rec.stock = -1 \/ rec.stock > 0

\* Recompensa.findById and the checks on the reward
CanjearBuscarRecompensa(p, c, r) ==
    /\ Toma(p)
    /\ ops' = ops + 1
    /\ LET rec == recompensas[r] IN
        req' = IF ~Existe(r)
               THEN [req EXCEPT ![p] = [op |-> "canjear", pc |-> "fin",
                        res |-> "NO_ENCONTRADA", cliente |-> c, recompensa |-> r]]
               ELSE IF ~rec.activo
               THEN [req EXCEPT ![p] = [op |-> "canjear", pc |-> "fin",
                        res |-> "NO_DISPONIBLE", cliente |-> c, recompensa |-> r]]
               ELSE IF ~tieneStock(rec)
               THEN [req EXCEPT ![p] = [op |-> "canjear", pc |-> "fin",
                        res |-> "AGOTADA", cliente |-> c, recompensa |-> r]]
               ELSE [req EXCEPT ![p] = [op |-> "canjear", pc |-> "findCliente",
                        cliente |-> c, recompensa |-> r, rec |-> rec,
                        gN |-> ops + 1,
                        gSolo |-> \A q \in Procs : q # p => Libre(q),
                        gAntes |-> Antes(c, r)]]
    /\ UNCHANGED <<now, ledger, activo, totalTransacciones, qrTokens, transacciones,
                   catalogo>>

revisaSaldoNunca(total, enEmpresa, requeridos) == "SEGUIR"

revisaSaldoSinEmpresa(total, enEmpresa, requeridos) ==
    IF total < requeridos THEN "PUNTOS_INSUFICIENTES" ELSE "SEGUIR"

revisaSaldoSinTotal(total, enEmpresa, requeridos) ==
    IF enEmpresa < requeridos THEN "PUNTOS_INSUFICIENTES_EMPRESA" ELSE "SEGUIR"

\* the two balance checks of canjear, in the order the handler makes them:
\* the customer's total first, then the points held at the reward's business
revisaSaldo(total, enEmpresa, requeridos) ==
    IF total < requeridos THEN "PUNTOS_INSUFICIENTES"
    ELSE IF enEmpresa < requeridos THEN "PUNTOS_INSUFICIENTES_EMPRESA"
    ELSE "SEGUIR"

\* Usuario.findById and the two balance checks
CanjearLeerCliente(p) ==
    /\ req[p].op = "canjear" /\ req[p].pc = "findCliente"
    /\ LET r == req[p]
           c == r.cliente
           i == FindIndex(puntosPorEmpresa[c], r.rec.empresa)
           puntosEnEmpresa == IF i > 0 THEN puntosPorEmpresa[c][i].puntos ELSE 0
           saldo == revisaSaldo(puntos[c], puntosEnEmpresa, r.rec.puntosRequeridos)
       IN  req' = IF saldo # "SEGUIR"
                  THEN Terminar(p, saldo, [cliente |-> c, recompensa |-> r.recompensa])
                  ELSE [req EXCEPT ![p] = [@ EXCEPT !.pc = "saveCanje"] @@
                          [puntosAnteriores |-> puntos[c],
                           puntosRestantes |-> puntos[c] - r.rec.puntosRequeridos,
                           indexEmpresa |-> i,
                           puntosEmpresa |-> puntosEnEmpresa]]
    /\ UNCHANGED <<now, ledger, activo, totalTransacciones, qrTokens, transacciones,
                   catalogo, ops>>

codigoSinIndice(cod) == TRUE

\* the unique index on codigoCanje admits a new canje with code cod
codigoLibre(cod) == \A k \in 1..Len(canjes) : canjes[k].codigoCanje # cod

detalleRecompensaVacio(rec) == [nombre |-> "null"]

\* the snapshot of the reward canjear stores in the canje, from the copy it read
detalleRecompensa(rec) == [nombre |-> rec.nombre]

\* generarCodigoCanje() draws a code; new Canje({...}).save(): estado defaults
\* to 'pendiente'.  A code already held by a canje is refused by the unique
\* index (duplicate key error), which the catch block answers with 500.
CanjearGuardarCanje(p) ==
    /\ req[p].op = "canjear" /\ req[p].pc = "saveCanje"
    /\ \E codigoCanje \in Codigos :
        LET r == req[p] IN
          IF codigoLibre(codigoCanje)
          THEN /\ canjes' = Append(canjes,
                      [cliente |-> r.cliente, recompensa |-> r.recompensa,
                       empresa |-> r.rec.empresa,
                       puntosCanjeados |-> r.rec.puntosRequeridos,
                       puntosAnteriores |-> r.puntosAnteriores,
                       puntosRestantes |-> r.puntosRestantes,
                       codigoCanje |-> codigoCanje,
                       detalleRecompensa |-> detalleRecompensa(r.rec),
                       estado |-> "pendiente"])
               /\ obs' = Append(obs, [n |-> r.gN, solo |-> FALSE, antes |-> r.gAntes,
                                      devueltos |-> 0, repuestos |-> 0])
               /\ req' = [req EXCEPT ![p] = [@ EXCEPT !.pc = "saveCliente"] @@
                            [canje |-> Len(canjes) + 1]]
          ELSE /\ req' = Terminar(p, "ERROR_500", [fallo |-> "codigoDuplicado"])
               /\ UNCHANGED <<canjes, obs>>
    /\ UNCHANGED <<now, ledger, activo, totalTransacciones, qrTokens, transacciones,
                   recompensas, ops>>

\* the per-issuer points canjear leaves: decrement, floored at 0
restarEnEmpresa(enEmpresa, requeridos) == Max(0, enEmpresa - requeridos)

\* clienteActualizado.puntos = puntosRestantes; puntosPorEmpresa[i].puntos -= ...; save()
CanjearGuardarCliente(p) ==
    /\ req[p].op = "canjear" /\ req[p].pc = "saveCliente"
    /\ LET r == req[p]
           c == r.cliente
       IN  /\ puntos' = [puntos EXCEPT ![c] = r.puntosRestantes]
           /\ puntosPorEmpresa' =
                IF r.indexEmpresa > 0
                THEN [puntosPorEmpresa EXCEPT ![c][r.indexEmpresa].puntos =
                        restarEnEmpresa(r.puntosEmpresa, r.rec.puntosRequeridos)]
                ELSE puntosPorEmpresa
    /\ req' = [req EXCEPT ![p].pc = "saveRecompensa"]
    /\ UNCHANGED <<now, activo, totalTransacciones, qrTokens, transacciones,
                   catalogo, ops>>

\* the reward canjear saves from its copy: stock -= 1 unless unlimited, counter += 1
reservar(rec) ==
    [rec EXCEPT !.stock = IF rec.stock # -1 THEN rec.stock - 1 ELSE rec.stock,
                !.canjesRealizados = rec.canjesRealizados + 1]

\* recompensa.save() writes the fields the handler modified in its copy (stock
\* only when the copy is not unlimited); the notification that follows changes
\* nothing; res 201
CanjearGuardarRecompensa(p) ==
    /\ req[p].op = "canjear" /\ req[p].pc = "saveRecompensa"
    /\ LET r == req[p] IN
        IF Existe(r.recompensa)
        THEN /\ recompensas' = [recompensas EXCEPT ![r.recompensa] =
                    [@ EXCEPT !.stock = IF reservar(r.rec).stock # r.rec.stock
                                        THEN reservar(r.rec).stock ELSE @,
                              !.canjesRealizados = reservar(r.rec).canjesRealizados]]
             /\ obs' = [obs EXCEPT ![r.canje].solo = r.gSolo /\ ops = r.gN]
             /\ Responder(p, [cliente |-> r.cliente, recompensa |-> r.recompensa,
                              canje |-> r.canje])
        ELSE /\ req' = Terminar(p, "ERROR_500", [fallo |-> "sinDocumento"])
             /\ UNCHANGED <<recompensas, obs>>
    /\ UNCHANGED <<now, ledger, activo, totalTransacciones, qrTokens, transacciones,
                   canjes, ops>>

\* ---------------------------------------------------------------- marcarEntregado
\* what marcarEntregado answers after Canje.findOne({_id, empresa}): an error, or
\* "SEGUIR" when it goes on to deliver
MarcarEntregadoDeCualquiera(k, e) ==
    IF k \notin 1..Len(canjes) THEN "NO_ENCONTRADO"
    ELSE IF canjes[k].estado = "entregado" THEN "YA_ENTREGADO"
    ELSE IF canjes[k].estado = "cancelado" THEN "CANCELADO"
    ELSE "SEGUIR"

MarcarEntregadoSinCancelado(k, e) ==
    IF k \notin 1..Len(canjes) \/ canjes[k].empresa # e THEN "NO_ENCONTRADO"
    ELSE IF canjes[k].estado = "entregado" THEN "YA_ENTREGADO"
    ELSE "SEGUIR"

marcarEntregadoRevisa(k, e) ==
    IF k \notin 1..Len(canjes) \/ canjes[k].empresa # e THEN "NO_ENCONTRADO"
    ELSE IF canjes[k].estado = "entregado" THEN "YA_ENTREGADO"
    ELSE IF canjes[k].estado = "cancelado" THEN "CANCELADO"
    ELSE "SEGUIR"

\* Canje.findOne({_id, empresa}) and the two state checks
MarcarEntregadoBuscar(p, k, e) ==
    /\ Toma(p)
    /\ ops' = ops + 1
    /\ req' = IF marcarEntregadoRevisa(k, e) # "SEGUIR"
              THEN [req EXCEPT ![p] = [op |-> "marcarEntregado", pc |-> "fin",
                        res |-> marcarEntregadoRevisa(k, e), canje |-> k, empresa |-> e]]
              ELSE [req EXCEPT ![p] = [op |-> "marcarEntregado", pc |-> "saveCanje",
                        canje |-> k, empresa |-> e]]
    /\ UNCHANGED <<now, ledger, activo, totalTransacciones, qrTokens, transacciones,
                   catalogo>>

MarcarEntregadoDevuelve(p) ==
    /\ req[p].op = "marcarEntregado" /\ req[p].pc = "saveCanje"
    /\ canjes' = [canjes EXCEPT ![req[p].canje].estado = "entregado"]
    /\ puntos' = [puntos EXCEPT ![canjes[req[p].canje].cliente] =
                     @ + canjes[req[p].canje].puntosCanjeados]
    /\ Responder(p, [canje |-> req[p].canje, empresa |-> req[p].empresa])
    /\ UNCHANGED <<now, puntosPorEmpresa, activo, totalTransacciones, qrTokens,
                   transacciones, recompensas, obs, ops>>

\* canje.estado = 'entregado'; canje.fechaEntrega = new Date(); await canje.save()
MarcarEntregadoGuardar(p) ==
    /\ req[p].op = "marcarEntregado" /\ req[p].pc = "saveCanje"
    /\ canjes' = [canjes EXCEPT ![req[p].canje].estado = "entregado"]
    /\ Responder(p, [canje |-> req[p].canje, empresa |-> req[p].empresa])
    /\ UNCHANGED <<now, ledger, activo, totalTransacciones, qrTokens, transacciones,
                   recompensas, obs, ops>>

\* ---------------------------------------------------------------- cancelar
\* Canje.findOne({_id, empresa, estado: 'pendiente'})
CancelarBuscar(p, k, e) ==
    /\ Toma(p)
    /\ ops' = ops + 1
    /\ req' = IF \/ k \notin 1..Len(canjes)
                 \/ canjes[k].empresa # e
                 \/ canjes[k].estado # "pendiente"
              THEN [req EXCEPT ![p] = [op |-> "cancelar", pc |-> "fin",
                        res |-> "NO_ENCONTRADO_O_NO_CANCELABLE",
                        canje |-> k, empresa |-> e]]
              ELSE [req EXCEPT ![p] = [op |-> "cancelar", pc |-> "findCliente",
                        canje |-> k, empresa |-> e, doc |-> canjes[k]]]
    /\ UNCHANGED <<now, ledger, activo, totalTransacciones, qrTokens, transacciones,
                   catalogo>>

\* const cliente = await Usuario.findById(canje.cliente)
CancelarLeerCliente(p) ==
    /\ req[p].op = "cancelar" /\ req[p].pc = "findCliente"
    /\ LET c == req[p].doc.cliente
           i == FindIndex(puntosPorEmpresa[c], req[p].doc.empresa)
       IN  req' = [req EXCEPT ![p] = [@ EXCEPT !.pc = "saveCliente"] @@
                     [puntosAnteriores |-> puntos[c],
                      indexEmpresa |-> i,
                      puntosEmpresa |-> IF i > 0 THEN puntosPorEmpresa[c][i].puntos ELSE 0]]
    /\ UNCHANGED <<now, ledger, activo, totalTransacciones, qrTokens, transacciones,
                   catalogo, ops>>

\* cliente.puntos += canje.puntosCanjeados; the same on the per-issuer entry
\* (or push); await cliente.save()
CancelarGuardarCliente(p) ==
    /\ req[p].op = "cancelar" /\ req[p].pc = "saveCliente"
    /\ LET r == req[p] IN
        /\ puntos' = GuardarPuntos(r.doc.cliente, r.puntosAnteriores,
                                   r.doc.puntosCanjeados)
        /\ puntosPorEmpresa' = GuardarPuntosPorEmpresa(r.doc.cliente, r.doc.empresa,
                                    r.indexEmpresa, r.puntosEmpresa,
                                    r.doc.puntosCanjeados)
        /\ obs' = [obs EXCEPT ![r.canje].devueltos = @ + 1]
    /\ req' = [req EXCEPT ![p].pc = "findRecompensa"]
    /\ UNCHANGED <<now, activo, totalTransacciones, qrTokens, transacciones,
                   recompensas, canjes, ops>>

\* const recompensa = await Recompensa.findById(canje.recompensa)
CancelarLeerRecompensa(p) ==
    /\ req[p].op = "cancelar" /\ req[p].pc = "findRecompensa"
    /\ req' = IF Existe(req[p].doc.recompensa)
              THEN [req EXCEPT ![p] = [@ EXCEPT !.pc = "saveRecompensa"] @@
                      [rec |-> recompensas[req[p].doc.recompensa]]]
              ELSE [req EXCEPT ![p].pc = "saveCanje"]
    /\ UNCHANGED <<now, ledger, activo, totalTransacciones, qrTokens, transacciones,
                   catalogo, ops>>

liberarSinStock(rec) ==
    [rec EXCEPT !.canjesRealizados = Max(0, rec.canjesRealizados - 1)]

\* the reward cancelar saves from its copy: stock += 1 unless unlimited,
\* counter -= 1 floored at 0
liberar(rec) ==
    [rec EXCEPT !.stock = IF rec.stock # -1 THEN rec.stock + 1 ELSE rec.stock,
                !.canjesRealizados = Max(0, rec.canjesRealizados - 1)]

\* recompensa.save(); with a modified path it throws when the document has
\* been deleted since it was read
CancelarGuardarRecompensa(p) ==
    /\ req[p].op = "cancelar" /\ req[p].pc = "saveRecompensa"
    /\ LET r == req[p] IN
        IF Existe(r.doc.recompensa) \/ liberar(r.rec) = r.rec
        THEN /\ recompensas' = [recompensas EXCEPT ![r.doc.recompensa] =
                    [@ EXCEPT !.stock =
                                  IF liberar(r.rec).stock # r.rec.stock
                                  THEN liberar(r.rec).stock ELSE @,
                              !.canjesRealizados =
                                  IF liberar(r.rec).canjesRealizados # r.rec.canjesRealizados
                                  THEN liberar(r.rec).canjesRealizados ELSE @]]
             /\ obs' = [obs EXCEPT ![r.canje].repuestos = @ + 1]
             /\ req' = [req EXCEPT ![p].pc = "saveCanje"]
        ELSE /\ req' = Terminar(p, "ERROR_500", [fallo |-> "sinDocumento"])
             /\ UNCHANGED <<recompensas, obs>>
    /\ UNCHANGED <<now, ledger, activo, totalTransacciones, qrTokens, transacciones,
                   canjes, ops>>

\* canje.estado = 'cancelado'; await canje.save(); the notification that follows
\* changes nothing; res 200
CancelarGuardarCanje(p) ==
    /\ req[p].op = "cancelar" /\ req[p].pc = "saveCanje"
    /\ canjes' = [canjes EXCEPT ![req[p].canje].estado = "cancelado"]
    /\ Responder(p, [canje |-> req[p].canje, empresa |-> req[p].empresa])
    /\ UNCHANGED <<now, ledger, activo, totalTransacciones, qrTokens, transacciones,
                   recompensas, obs, ops>>

\* ---------------------------------------------------------------- catalog
\* RecompensaController.crear: the validations and new Recompensa({...}).save();
\* r is the _id the new document gets
CrearRecompensa(p, e, r, nombre, puntosRequeridos, stock) ==
    /\ Toma(p)
    /\ ops' = ops + 1
    /\ recompensas[r].documento = "ninguno"
    /\ IF puntosRequeridos < 1
       THEN /\ req' = [req EXCEPT ![p] = [op |-> "crear", pc |-> "fin",
                          res |-> "DATOS_INVALIDOS", empresa |-> e]]
            /\ UNCHANGED recompensas
       ELSE /\ recompensas' = [recompensas EXCEPT ![r] =
                    [empresa |-> e, puntosRequeridos |-> puntosRequeridos,
                     stock |-> stock, activo |-> TRUE, canjesRealizados |-> 0,
                     nombre |-> nombre, documento |-> "guardado",
                     stockInicial |-> stock]]
            /\ req' = [req EXCEPT ![p] = [op |-> "crear", pc |-> "fin", res |-> "OK",
                          empresa |-> e, recompensa |-> r]]
    /\ UNCHANGED <<now, ledger, activo, totalTransacciones, qrTokens, transacciones,
                   canjes, obs>>

\* the copy of the reward after actualizar assigned the field the body carries
actualizada(rec, campo) ==
    IF campo = "nombre" THEN [rec EXCEPT !.nombre = "te"]
    ELSE IF campo = "stock" THEN [rec EXCEPT !.stock = 0]
    ELSE [rec EXCEPT !.activo = FALSE]

\* RecompensaController.actualizar: Recompensa.findOne({_id, empresa})
ActualizarBuscar(p, r, e, campo) ==
    /\ Toma(p)
    /\ ops' = ops + 1
    /\ req' = IF ~Existe(r) \/ recompensas[r].empresa # e
              THEN [req EXCEPT ![p] = [op |-> "actualizar", pc |-> "fin",
                        res |-> "NO_ENCONTRADA", empresa |-> e, recompensa |-> r]]
              ELSE [req EXCEPT ![p] = [op |-> "actualizar", pc |-> "saveRecompensa",
                        empresa |-> e, recompensa |-> r, campo |-> campo,
                        rec |-> recompensas[r]]]
    /\ UNCHANGED <<now, ledger, activo, totalTransacciones, qrTokens, transacciones,
                   catalogo>>

\* recompensa.save() of actualizar: the assigned field, if its value changed;
\* it throws when the document has been deleted since it was read
ActualizarGuardar(p) ==
    /\ req[p].op = "actualizar" /\ req[p].pc = "saveRecompensa"
    /\ LET r == req[p]
           nueva == actualizada(r.rec, r.campo)
       IN  IF Existe(r.recompensa) \/ nueva = r.rec
           THEN /\ recompensas' = [recompensas EXCEPT ![r.recompensa] =
                       [@ EXCEPT !.nombre = IF nueva.nombre # r.rec.nombre
                                            THEN nueva.nombre ELSE @,
                                 !.stock = IF nueva.stock # r.rec.stock
                                           THEN nueva.stock ELSE @,
                                 !.activo = IF nueva.activo # r.rec.activo
                                            THEN nueva.activo ELSE @]]
                /\ req' = Terminar(p, "OK", [empresa |-> r.empresa,
                                             recompensa |-> r.recompensa])
           ELSE /\ req' = Terminar(p, "ERROR_500", [fallo |-> "sinDocumento"])
                /\ UNCHANGED recompensas
    /\ UNCHANGED <<now, ledger, activo, totalTransacciones, qrTokens, transacciones,
                   canjes, obs, ops>>

\* RecompensaController.eliminar: Recompensa.findOneAndDelete({_id, empresa})
EliminarRecompensa(p, r, e) ==
    /\ Toma(p)
    /\ ops' = ops + 1
    /\ IF ~Existe(r) \/ recompensas[r].empresa # e
       THEN /\ req' = [req EXCEPT ![p] = [op |-> "eliminar", pc |-> "fin",
                          res |-> "NO_ENCONTRADA", empresa |-> e, recompensa |-> r]]
            /\ UNCHANGED recompensas
       ELSE /\ recompensas' = [recompensas EXCEPT ![r].documento = "eliminado"]
            /\ req' = [req EXCEPT ![p] = [op |-> "eliminar", pc |-> "fin", res |-> "OK",
                          empresa |-> e, recompensa |-> r]]
    /\ UNCHANGED <<now, ledger, activo, totalTransacciones, qrTokens, transacciones,
                   canjes, obs>>

\* AuthController.actualizarPerfil: Usuario.findByIdAndUpdate with telefono and
\* nombre or nombreEmpresa, fields no other handler reads
ActualizarPerfil(p, c) ==
    /\ Toma(p)
    /\ ops' = ops + 1
    /\ req' = [req EXCEPT ![p] = [op |-> "actualizarPerfil", pc |-> "fin",
                  res |-> "OK", usuario |-> c]]
    /\ UNCHANGED <<now, ledger, activo, totalTransacciones, qrTokens, transacciones,
                   catalogo>>

\* ---------------------------------------------------------------- specifications
\* The token authority and the credit path, from the state after registration
\* (authController sets puntos: 0; no token, no transaction).
InitCredito ==
    /\ now = 0
    /\ puntos = [c \in Clientes |-> 0]
    /\ puntosPorEmpresa = [c \in Clientes |-> <<>>]
    /\ activo = [c \in Clientes |-> "si"]
    /\ totalTransacciones = [e \in Empresas |-> 0]
    /\ qrTokens = <<>>
    /\ transacciones = <<>>
    /\ recompensas = [r \in Recompensas |->
            [empresa |-> IF r = "r2" THEN "e2" ELSE "e1",
             puntosRequeridos |-> IF r = "r1" THEN 2 ELSE IF r = "r2" THEN 7 ELSE 1,
             stock |-> -1, activo |-> r # "r3", canjesRealizados |-> 0,
             nombre |-> "cafe", stockInicial |-> -1,
             documento |-> IF r = "r4" THEN "ninguno" ELSE "guardado"]]
    /\ canjes = <<>>
    /\ req = [p \in Procs |-> Idle]
    /\ ops = 0
    /\ obs = <<>>

NextCredito ==
    \/ Tick
    \/ \E c \in Clientes : GenerarQR(c)
    \/ \E p \in Procs, e \in Empresas, t \in 1..MaxTokens, m \in Montos :
          AgregarPuntosValidar(p, e, t, m)
    \/ \E p \in Procs, e \in Empresas, t \in 1..MaxTokens : LeerQR(p, e, t)
    \/ \E p \in Procs : AgregarPuntosLeerCliente(p)
    \/ \E p \in Procs : AgregarPuntosGuardarCliente(p)
    \/ \E p \in Procs : AgregarPuntosIncEmpresa(p)
    \/ \E p \in Procs : AgregarPuntosGuardarTransaccion(p)
    \/ \E p \in Procs : AgregarPuntosMarcarUsado(p)
    \/ \E p \in Procs : Falla(p)

SpecCredito == InitCredito /\ [][NextCredito]_vars

\* The redemption engine, from a ledger that sequential credits have filled:
\* customer c1 was credited 8 points by e1 and perhaps 2 by e2 (tokens since
\* purged), and may hold one pending redemption of r1.  r1 has unlimited or
\* finite stock, r2 costs more than e2 ever credited, r3 is withdrawn from the
\* catalog, r4 is not created yet.  stockInicial is the stock a reward was
\* created with; no handler reads it.
InitCanje ==
    /\ now = 0
    /\ activo = [c \in Clientes |-> "si"]
    /\ qrTokens = <<>>
    /\ req = [p \in Procs |-> Idle]
    /\ ops = 0
    /\ \E previo \in BOOLEAN, conE2 \in BOOLEAN, s1 \in {-1, 0, 1} :
        /\ totalTransacciones = [e \in Empresas |-> IF e = "e2" /\ ~conE2 THEN 0 ELSE 1]
        /\ transacciones =
              << [cliente |-> "c1", empresa |-> "e1", monto |-> 800, puntosOtorgados |-> 8,
                  puntosAnteriores |-> 0, puntosNuevos |-> 8, qrToken |-> -1] >>
              \o (IF conE2
                  THEN << [cliente |-> "c1", empresa |-> "e2", monto |-> 99,
                           puntosOtorgados |-> 2, puntosAnteriores |-> 8,
                           puntosNuevos |-> 10, qrToken |-> -2] >>
                  ELSE <<>>)
        /\ puntos = [c \in Clientes |->
                (IF conE2 THEN 10 ELSE 8) - (IF previo THEN 2 ELSE 0)]
        /\ puntosPorEmpresa = [c \in Clientes |->
                << [empresa |-> "e1", puntos |-> IF previo THEN 6 ELSE 8] >>
                \o (IF conE2 THEN << [empresa |-> "e2", puntos |-> 2] >> ELSE <<>>)]
        /\ recompensas = [r \in Recompensas |->
                IF r = "r1"
                THEN [empresa |-> "e1", puntosRequeridos |-> 2, stock |-> s1,
                      activo |-> TRUE, canjesRealizados |-> IF previo THEN 1 ELSE 0,
                      nombre |-> "cafe", documento |-> "guardado",
                      stockInicial |-> IF s1 = -1 THEN -1
                                       ELSE s1 + (IF previo THEN 1 ELSE 0)]
                ELSE IF r = "r2"
                THEN [empresa |-> "e2", puntosRequeridos |-> 7, stock |-> 1,
                      activo |-> TRUE, canjesRealizados |-> 0, nombre |-> "cafe",
                      documento |-> "guardado", stockInicial |-> 1]
                ELSE IF r = "r3"
                THEN [empresa |-> "e1", puntosRequeridos |-> 1, stock |-> 0,
                      activo |-> FALSE, canjesRealizados |-> 0, nombre |-> "cafe",
                      documento |-> "guardado", stockInicial |-> 0]
                ELSE [empresa |-> "e1", puntosRequeridos |-> 1, stock |-> -1,
                      activo |-> TRUE, canjesRealizados |-> 0, nombre |-> "cafe",
                      documento |-> "ninguno", stockInicial |-> -1]]
        /\ canjes = IF previo
                    THEN << [cliente |-> "c1", recompensa |-> "r1", empresa |-> "e1",
                             puntosCanjeados |-> 2,
                             puntosAnteriores |-> IF conE2 THEN 10 ELSE 8,
                             puntosRestantes |-> IF conE2 THEN 8 ELSE 6,
                             codigoCanje |-> "CJ-1",
                             detalleRecompensa |-> [nombre |-> "cafe"],
                             estado |-> "pendiente"] >>
                    ELSE <<>>
        /\ obs = IF previo
                 THEN << [n |-> 0, solo |-> FALSE,
                          antes |-> [puntos |-> IF conE2 THEN 10 ELSE 8, enEmpresa |-> 8,
                                     stock |-> IF s1 = -1 THEN -1 ELSE s1 + 1,
                                     canjesRealizados |-> 0],
                          devueltos |-> 0, repuestos |-> 0] >>
                 ELSE <<>>

NextCanje ==
    \/ \E p \in Procs, c \in Clientes, r \in Recompensas : CanjearBuscarRecompensa(p, c, r)
    \/ \E p \in Procs : CanjearLeerCliente(p)
    \/ \E p \in Procs : CanjearGuardarCanje(p)
    \/ \E p \in Procs : CanjearGuardarCliente(p)
    \/ \E p \in Procs : CanjearGuardarRecompensa(p)
    \/ \E p \in Procs, k \in 1..(Len(canjes) + 1), e \in Empresas : MarcarEntregadoBuscar(p, k, e)
    \/ \E p \in Procs : MarcarEntregadoGuardar(p)
    \/ \E p \in Procs, k \in 1..(Len(canjes) + 1), e \in Empresas : CancelarBuscar(p, k, e)
    \/ \E p \in Procs : CancelarLeerCliente(p)
    \/ \E p \in Procs : CancelarGuardarCliente(p)
    \/ \E p \in Procs : CancelarLeerRecompensa(p)
    \/ \E p \in Procs : CancelarGuardarRecompensa(p)
    \/ \E p \in Procs : CancelarGuardarCanje(p)
    \/ \E p \in Procs : Falla(p)

SpecCanje == InitCanje /\ [][NextCanje]_vars

\* The token authority over the whole life of a token: issue, validation,
\* consumption by a credit, expiry, purge, and the account changing state.
\* Tokens are issued while the clock can still reach their expiry; the business
\* and the amount of a credit play no part in the life of a token.
NextToken ==
    \/ Reloj(MaxTimeToken)
    \/ \E c \in Clientes : GenerarQR(c) /\ now + ExpirationSeconds < MaxTimeToken
    \/ \E p \in Procs, t \in 1..MaxTokens : LeerQR(p, "e1", t)
    \/ \E p \in Procs, t \in 1..MaxTokens : AgregarPuntosValidar(p, "e1", t, 250)
    \/ \E p \in Procs : AgregarPuntosLeerCliente(p)
    \/ \E p \in Procs : AgregarPuntosGuardarCliente(p)
    \/ \E p \in Procs : AgregarPuntosIncEmpresa(p)
    \/ \E p \in Procs : AgregarPuntosGuardarTransaccion(p)
    \/ \E p \in Procs : AgregarPuntosMarcarUsado(p)
    \/ LimpiarExpirados
    \/ PurgaTTL
    \/ \E c \in Clientes, estado \in {"si", "no", "eliminado"} : Administrar(c, estado)

SpecToken == InitCredito /\ [][NextToken]_vars

\* the clock never stops
SpecTokenJusto == SpecToken /\ WF_vars(Reloj(MaxTimeToken))

\* Two customers with points at both businesses (c2's entries in the other
\* order), c1 holding one pending redemption of r1: credits, redemptions
\* and cancellations of both customers interleave.
InitLocal ==
    /\ now = 0
    /\ activo = [c \in ClientesDos |-> "si"]
    /\ qrTokens = <<>>
    /\ req = [p \in Procs |-> Idle]
    /\ ops = 0
    /\ totalTransacciones = [e \in Empresas |-> 2]
    /\ transacciones =
          << [cliente |-> "c1", empresa |-> "e1", monto |-> 800, puntosOtorgados |-> 8,
              puntosAnteriores |-> 0, puntosNuevos |-> 8, qrToken |-> -1],
             [cliente |-> "c1", empresa |-> "e2", monto |-> 99, puntosOtorgados |-> 2,
              puntosAnteriores |-> 8, puntosNuevos |-> 10, qrToken |-> -2],
             [cliente |-> "c2", empresa |-> "e2", monto |-> 100, puntosOtorgados |-> 4,
              puntosAnteriores |-> 0, puntosNuevos |-> 4, qrToken |-> -3],
             [cliente |-> "c2", empresa |-> "e1", monto |-> 300, puntosOtorgados |-> 3,
              puntosAnteriores |-> 4, puntosNuevos |-> 7, qrToken |-> -4] >>
    /\ puntos = [c \in ClientesDos |-> IF c = "c1" THEN 8 ELSE 7]
    /\ puntosPorEmpresa = [c \in ClientesDos |->
            IF c = "c1"
            THEN << [empresa |-> "e1", puntos |-> 6], [empresa |-> "e2", puntos |-> 2] >>
            ELSE << [empresa |-> "e2", puntos |-> 4], [empresa |-> "e1", puntos |-> 3] >>]
    /\ recompensas = [r \in Recompensas |->
            IF r = "r1"
            THEN [empresa |-> "e1", puntosRequeridos |-> 2, stock |-> 1,
                  activo |-> TRUE, canjesRealizados |-> 1, nombre |-> "cafe",
                  documento |-> "guardado", stockInicial |-> 2]
            ELSE IF r = "r2"
            THEN [empresa |-> "e2", puntosRequeridos |-> 3, stock |-> -1,
                  activo |-> TRUE, canjesRealizados |-> 0, nombre |-> "cafe",
                  documento |-> "guardado", stockInicial |-> -1]
            ELSE [empresa |-> "e1", puntosRequeridos |-> 1, stock |-> 0,
                  activo |-> FALSE, canjesRealizados |-> 0, nombre |-> "cafe",
                  documento |-> IF r = "r3" THEN "guardado" ELSE "ninguno",
                  stockInicial |-> 0]]
    /\ canjes = << [cliente |-> "c1", recompensa |-> "r1", empresa |-> "e1",
                    puntosCanjeados |-> 2, puntosAnteriores |-> 10,
                    puntosRestantes |-> 8, codigoCanje |-> "CJ-1",
                    detalleRecompensa |-> [nombre |-> "cafe"],
                    estado |-> "pendiente"] >>
    /\ obs = << [n |-> 0, solo |-> FALSE,
                 antes |-> [puntos |-> 10, enEmpresa |-> 8, stock |-> 2,
                            canjesRealizados |-> 0],
                 devueltos |-> 0, repuestos |-> 0] >>

NextLocal ==
    \/ \E c \in ClientesDos : GenerarQR(c)
    \/ \E p \in Procs, e \in Empresas, t \in 1..MaxTokens :
          AgregarPuntosValidar(p, e, t, 250)
    \/ \E p \in Procs : AgregarPuntosLeerCliente(p)
    \/ \E p \in Procs : AgregarPuntosGuardarCliente(p)
    \/ \E p \in Procs : AgregarPuntosIncEmpresa(p)
    \/ \E p \in Procs : AgregarPuntosGuardarTransaccion(p)
    \/ \E p \in Procs : AgregarPuntosMarcarUsado(p)
    \/ \E p \in Procs, c \in ClientesDos, r \in Recompensas :
          CanjearBuscarRecompensa(p, c, r)
    \/ \E p \in Procs : CanjearLeerCliente(p)
    \/ \E p \in Procs : CanjearGuardarCanje(p)
    \/ \E p \in Procs : CanjearGuardarCliente(p)
    \/ \E p \in Procs : CanjearGuardarRecompensa(p)
    \/ \E p \in Procs, k \in 1..(Len(canjes) + 1), e \in Empresas :
          CancelarBuscar(p, k, e)
    \/ \E p \in Procs : CancelarLeerCliente(p)
    \/ \E p \in Procs : CancelarGuardarCliente(p)
    \/ \E p \in Procs : CancelarLeerRecompensa(p)
    \/ \E p \in Procs : CancelarGuardarRecompensa(p)
    \/ \E p \in Procs : CancelarGuardarCanje(p)

SpecLocal == InitLocal /\ [][NextLocal]_vars

NextCatalogo ==
    \/ \E p \in Procs, e \in Empresas, r \in Recompensas, n \in Nombres,
          pr \in {0, 2}, st \in {-1, 1} : CrearRecompensa(p, e, r, n, pr, st)
    \/ \E p \in Procs, r \in Recompensas, e \in Empresas,
          campo \in {"nombre", "stock", "activo"} : ActualizarBuscar(p, r, e, campo)
    \/ \E p \in Procs : ActualizarGuardar(p)
    \/ \E p \in Procs, r \in Recompensas, e \in Empresas : EliminarRecompensa(p, r, e)
    \/ \E p \in Procs, c \in Clientes \cup Empresas : ActualizarPerfil(p, c)

\* The whole service.
Init == InitCredito \/ InitCanje
Next == NextCredito \/ NextCanje \/ NextCatalogo
Spec == Init /\ [][Next]_vars

\* The whole service from one ledger: customer c1 credited by e1 and e2,
\* holding a pending canje of r1, which has one unit of stock left.
InitServicio ==
    /\ InitCanje
    /\ canjes # <<>>
    /\ recompensas["r1"].stock = 1
    /\ Len(puntosPorEmpresa["c1"]) = 2

\* every handler, with the clock standing still (no token expires)
NextServicio ==
    \/ \E c \in Clientes : GenerarQR(c)
    \/ \E p \in Procs, e \in Empresas, t \in 1..MaxTokens : LeerQR(p, e, t)
    \/ \E p \in Procs, e \in Empresas, t \in 1..MaxTokens, m \in Montos :
          AgregarPuntosValidar(p, e, t, m)
    \/ \E p \in Procs : AgregarPuntosLeerCliente(p)
    \/ \E p \in Procs : AgregarPuntosGuardarCliente(p)
    \/ \E p \in Procs : AgregarPuntosIncEmpresa(p)
    \/ \E p \in Procs : AgregarPuntosGuardarTransaccion(p)
    \/ \E p \in Procs : AgregarPuntosMarcarUsado(p)
    \/ NextCanje
    \/ NextCatalogo

SpecServicio == InitServicio /\ [][NextServicio]_vars

\* ---------------------------------------------------------------- properties
Terminal == {"entregado", "cancelado"}

\* every request answered so far succeeded
SoloExitos == \A p \in Procs : req[p].pc = "fin" => req[p].res = "OK"

\* no token is referenced by two transactions
TokensDeUnUso ==
    \A i, j \in 1..Len(transacciones) :
        transacciones[i].qrToken = transacciones[j].qrToken => i = j

\* C1 - Conservation: whenever no request is in progress, after successful
\* operations only (each token credited once), every customer's puntos equals
\* the sum of the points of its puntosPorEmpresa entries.
C1_Conservacion ==
    (Quieto /\ SoloExitos /\ TokensDeUnUso) =>
        \A c \in Clientes : puntos[c] = SumaPuntos(puntosPorEmpresa[c])

\* the calls of marcarComoUsado on token t that returned the document (success)
ConsumosExitosos(t) ==
    {p \in Procs : /\ req[p].pc = "fin" /\ req[p].op = "agregarPuntos"
                   /\ req[p].res = "OK" /\ req[p].token = t /\ req[p].marcado}

\* C2 - Single use: of the concurrent marcarComoUsado calls on one unexpired
\* token, at most one reports success.
C2_ConsumoUnico ==
    \A t \in 1..Len(qrTokens) :
        ~estaExpirado(qrTokens[t]) => Cardinality(ConsumosExitosos(t)) <= 1

\* C3 - No double spend: at most one Transaccion ever references a token.
C3_SinDobleGasto ==
    \A t \in 1..Len(qrTokens) :
        Cardinality({i \in 1..Len(transacciones) : transacciones[i].qrToken = t}) <= 1

\* C4 - No lost update: when the only two requests of a run are successful
\* credits of one customer by different businesses with distinct tokens, the
\* customer holds the sum of both credits and each partition holds its credit
\* (the customer starts at 0 points).
C4_SinActualizacionPerdida ==
    \A p, q \in Procs :
        ( /\ p # q /\ ops = 2
          /\ req[p].pc = "fin" /\ req[p].op = "agregarPuntos" /\ req[p].res = "OK"
          /\ req[q].pc = "fin" /\ req[q].op = "agregarPuntos" /\ req[q].res = "OK"
          /\ req[p].cliente = req[q].cliente
          /\ req[p].empresa # req[q].empresa
          /\ req[p].token # req[q].token )
        => /\ puntos[req[p].cliente] = req[p].calc + req[q].calc
           /\ PuntosEn(puntosPorEmpresa[req[p].cliente], req[p].empresa) = req[p].calc
           /\ PuntosEn(puntosPorEmpresa[req[p].cliente], req[q].empresa) = req[q].calc

\* C5 - Expiry: a token past expiraEn is never reported valid by validarQR and
\* no step marks it used.
C5_ExpiracionRespetada ==
    [][\A t \in 1..Len(qrTokens) :
          estaExpirado(qrTokens[t]) =>
              /\ validarQR(t) # "QR_VALID"
              /\ qrTokens'[t].usado = qrTokens[t].usado]_vars

\* the values a Redeem of canje k found before it started are the current ones
Restaurado(k) ==
    LET c == canjes[k].cliente
        r == canjes[k].recompensa
    IN  /\ puntos[c] = obs[k].antes.puntos
        /\ PuntosEn(puntosPorEmpresa[c], canjes[k].empresa) = obs[k].antes.enEmpresa
        /\ recompensas[r].stock = obs[k].antes.stock
        /\ recompensas[r].canjesRealizados = obs[k].antes.canjesRealizados

\* canje k was redeemed by a request that ran alone and has been cancelled by
\* the very next request, the last one started
CanjeadoYCancelado(k) ==
    /\ canjes[k].estado = "cancelado"
    /\ obs[k].solo
    /\ ops = obs[k].n + 1

\* C6 - Reversal is exact: a successful canjear immediately followed by a
\* successful cancelar of that canje, nothing in between, leaves puntos, the
\* per-issuer points of the reward's business, stock and canjesRealizados as
\* they were before the canjear.
C6_ReversionExacta ==
    \A k \in 1..Len(canjes) : CanjeadoYCancelado(k) => Restaurado(k)

C6_Witness ==
    \E k \in 1..Len(canjes) :
        /\ CanjeadoYCancelado(k)
        /\ recompensas[canjes[k].recompensa].stock # -1

\* a MarkDelivered or Cancel by the owning business on a terminal canje answers
\* at once with one of `entrega`/`cancelacion` and changes nothing
RechazoTerminal(entrega, cancelacion) ==
    \A p \in Procs, k \in 1..Len(canjes) :
        canjes[k].estado \in Terminal =>
            /\ MarcarEntregadoBuscar(p, k, canjes[k].empresa) =>
                  /\ req'[p].pc = "fin" /\ req'[p].res \in entrega
                  /\ UNCHANGED <<ledger, recompensas, canjes>>
            /\ CancelarBuscar(p, k, canjes[k].empresa) =>
                  /\ req'[p].pc = "fin" /\ req'[p].res \in cancelacion
                  /\ UNCHANGED <<ledger, recompensas, canjes>>

C8_TransicionesLegales ==
    [][/\ \A k \in 1..Len(canjes) :
             canjes[k].estado \in Terminal => canjes'[k].estado = canjes[k].estado
       /\ \A k \in (Len(canjes) + 1)..Len(canjes') : canjes'[k].estado = "pendiente"]_vars

\* C9 - No double cancel, no deliver after cancel: the points of a canje are
\* returned at most once, its stock is restored at most once, and it is never
\* entregado with its points returned.
C9_SinDobleCancelacion ==
    \A k \in 1..Len(canjes) :
        /\ obs[k].devueltos <= 1
        /\ obs[k].repuestos <= 1
        /\ ~(canjes[k].estado = "entregado" /\ obs[k].devueltos >= 1)

\* C10 - Cancellation is atomic with its compensation: with no request in
\* progress, no canje is cancelado with its points not returned, nor pendiente
\* with its points returned.
C10_CancelacionAtomica ==
    Quieto =>
        \A k \in 1..Len(canjes) :
            /\ canjes[k].estado = "cancelado" => obs[k].devueltos >= 1
            /\ canjes[k].estado = "pendiente" => obs[k].devueltos = 0

\* points the transactions of txs credited to customer c at the businesses of E
RECURSIVE Otorgados(_, _, _)
Otorgados(txs, c, E) ==
    IF txs = <<>> THEN 0
    ELSE (IF Head(txs).cliente = c /\ Head(txs).empresa \in E
          THEN Head(txs).puntosOtorgados ELSE 0) + Otorgados(Tail(txs), c, E)

\* points spent by the canjes of cs that customer c holds (pendiente or
\* entregado) at the businesses of E
RECURSIVE Canjeados(_, _, _)
Canjeados(cs, c, E) ==
    IF cs = <<>> THEN 0
    ELSE (IF Head(cs).cliente = c /\ Head(cs).empresa \in E /\ Head(cs).estado # "cancelado"
          THEN Head(cs).puntosCanjeados ELSE 0) + Canjeados(Tail(cs), c, E)

\* the balance of customer c and its partition at e are what was credited
\* minus what the redemptions it holds spent
Debitado(c) ==
    /\ puntos[c] = Otorgados(transacciones, c, Empresas) - Canjeados(canjes, c, Empresas)
    /\ \A e \in Empresas :
          PuntosEn(puntosPorEmpresa[c], e) =
              Otorgados(transacciones, c, {e}) - Canjeados(canjes, c, {e})

\* the only two requests of the run were canjear of customer c, both answered 201
DosCanjesExitosos(c) ==
    /\ ops = 2
    /\ \A p \in Procs : /\ req[p].pc = "fin" /\ req[p].op = "canjear"
                        /\ req[p].res = "OK" /\ req[p].cliente = c
    /\ req[1].canje # req[2].canje

\* C11 - Redeem is not lost-update-prone: when two canjear requests of one
\* customer both succeed, the customer's puntos and its partitions have gone
\* down by the sum of both puntosCanjeados, so the redemptions the customer
\* holds never spent more than was debited.
C11_CanjesSinPerdida ==
    \A c \in Clientes : DosCanjesExitosos(c) => Debitado(c)

\* the canjes of reward r that are pendiente or entregado
Vigentes(r) ==
    {k \in 1..Len(canjes) : canjes[k].recompensa = r /\ canjes[k].estado # "cancelado"}

\* C12 - No over-selling: for a reward created with finite stock s (and never
\* edited), once every request has been answered successfully, the canjes of
\* the reward that are pendiente or entregado are at most s and its stock is
\* not below 0.
C12_SinSobreventa ==
    (Quieto /\ SoloExitos) =>
        \A r \in Recompensas :
            recompensas[r].stockInicial # -1 =>
                /\ Cardinality(Vigentes(r)) <= recompensas[r].stockInicial
                /\ recompensas[r].stock >= 0

\* worker p is about to read the customer for canjear, which holds fewer
\* points at the reward's business (0 without an entry) than the reward costs
FaltanEnEmpresa(p) ==
    /\ req[p].op = "canjear" /\ req[p].pc = "findCliente"
    /\ PuntosEn(puntosPorEmpresa[req[p].cliente], req[p].rec.empresa)
          < req[p].rec.puntosRequeridos

\* worker p is about to read the customer for canjear, whose total is below
\* the cost of the reward
FaltanEnTotal(p) ==
    /\ req[p].op = "canjear" /\ req[p].pc = "findCliente"
    /\ puntos[req[p].cliente] < req[p].rec.puntosRequeridos

\* the step answers worker p's canjear with error res and creates no canje,
\* debits nothing and reserves nothing
CanjeRechazado(p, res) ==
    /\ req'[p].pc = "fin" /\ req'[p].res = res
    /\ UNCHANGED <<ledger, recompensas, canjes>>

\* C13 as stated: canjear answers "insufficient points at the business"
\* whenever the customer holds fewer points at the reward's business than the
\* reward costs, whatever the customer's total.
C13_SaldoPorEmpresa_Original ==
    [][\A p \in Procs :
          (FaltanEnEmpresa(p) /\ CanjearLeerCliente(p))
              => CanjeRechazado(p, "PUNTOS_INSUFICIENTES_EMPRESA")]_vars

\* C13 - Issuer-scoped sufficiency: canjear answers "insufficient points at
\* the business" whenever the customer holds fewer points at the reward's
\* business than the reward costs (0 without an entry) while its total covers
\* the cost; no canje is created and balances, stock and counter are unchanged.
C13_SaldoPorEmpresa ==
    [][\A p \in Procs :
          (FaltanEnEmpresa(p) /\ ~FaltanEnTotal(p) /\ CanjearLeerCliente(p))
              => CanjeRechazado(p, "PUNTOS_INSUFICIENTES_EMPRESA")]_vars

\* a canjear was refused for the business's partition, of a customer with no
\* entry for that business, whose total covers the cost
C13_Witness ==
    \E p \in Procs :
        /\ req[p].pc = "fin" /\ req[p].op = "canjear"
        /\ req[p].res = "PUNTOS_INSUFICIENTES_EMPRESA"
        /\ FindIndex(puntosPorEmpresa[req[p].cliente],
                     recompensas[req[p].recompensa].empresa) = 0
        /\ puntos[req[p].cliente] >= recompensas[req[p].recompensa].puntosRequeridos

\* C14 - Global sufficiency: canjear answers "insufficient points" whenever
\* the customer's puntos is below the cost of the reward, the total being
\* checked before the points held at the business; no canje is created and
\* balances, stock and counter are unchanged.
C14_SaldoTotal ==
    [][\A p \in Procs :
          (FaltanEnTotal(p) /\ CanjearLeerCliente(p))
              => CanjeRechazado(p, "PUNTOS_INSUFICIENTES")]_vars

\* a canjear was refused for the total, of a customer that also held fewer
\* points at the reward's business than the reward costs
C14_Witness ==
    \E p \in Procs :
        /\ req[p].pc = "fin" /\ req[p].op = "canjear"
        /\ req[p].res = "PUNTOS_INSUFICIENTES"
        /\ puntos[req[p].cliente] < recompensas[req[p].recompensa].puntosRequeridos
        /\ PuntosEn(puntosPorEmpresa[req[p].cliente],
                    recompensas[req[p].recompensa].empresa)
              < recompensas[req[p].recompensa].puntosRequeridos

\* C15 - Reward availability: canjear goes on to the balance checks only for
\* a reward that is active and has stock (-1 or above 0); for an inactive
\* reward it answers "not available", for an active one with finite stock at
\* or below 0 "out of stock", and in both cases it debits nothing and creates
\* no canje.
C15_RecompensaDisponible ==
    [][\A p \in Procs, c \in Clientes, r \in Recompensas :
          (Existe(r) /\ CanjearBuscarRecompensa(p, c, r)) =>
              /\ ~recompensas[r].activo => CanjeRechazado(p, "NO_DISPONIBLE")
              /\ (/\ recompensas[r].activo
                  /\ recompensas[r].stock # -1
                  /\ recompensas[r].stock <= 0) => CanjeRechazado(p, "AGOTADA")
              /\ req'[p].pc # "fin" =>
                    /\ recompensas[r].activo
                    /\ recompensas[r].stock = -1 \/ recompensas[r].stock > 0]_vars

\* one canjear was refused for an inactive reward and another for an active
\* reward whose finite stock is used up
C15_Witness ==
    \E p, q \in Procs :
        /\ req[p].pc = "fin" /\ req[p].op = "canjear" /\ req[p].res = "NO_DISPONIBLE"
        /\ ~recompensas[req[p].recompensa].activo
        /\ req[q].pc = "fin" /\ req[q].op = "canjear" /\ req[q].res = "AGOTADA"
        /\ recompensas[req[q].recompensa].stock = 0

\* the only request of the run was an agregarPuntos and it was answered with
\* an error
UnCreditoFallido ==
    /\ Quieto /\ ops = 1
    /\ req[1].op = "agregarPuntos" /\ req[1].pc = "fin" /\ req[1].res # "OK"

\* C16 - A failed credit leaves no partial state: after an agregarPuntos that
\* failed (validation, or a storage failure while saving the customer,
\* inserting the transaction or marking the token), the balances, the
\* transaction log and every token's usado flag are as before the call (the
\* run starts with no points, no transactions and unused tokens); in
\* particular points are never credited with the token left unused.
C16_CreditoFallidoSinEfecto ==
    UnCreditoFallido =>
        /\ \A c \in Clientes : puntos[c] = 0 /\ puntosPorEmpresa[c] = <<>>
        /\ transacciones = <<>>
        /\ \A t \in 1..Len(qrTokens) : ~qrTokens[t].usado

\* the only request of the run was a canjear and it was answered with an error
UnCanjeFallido ==
    /\ Quieto /\ ops = 1
    /\ req[1].op = "canjear" /\ req[1].pc = "fin" /\ req[1].res # "OK"

\* C17 - A failed redemption leaves no partial state: after a canjear that
\* failed (a check, or a storage failure while saving the customer or the
\* reward once the canje is inserted), no canje of that request exists, and
\* balances, stock and counter are as before the call: what was credited
\* minus what the canjes held spend, and the stock and counter the canjes
\* held account for.
C17_CanjeFallidoSinEfecto ==
    UnCanjeFallido =>
        /\ \A k \in 1..Len(canjes) : obs[k].n # 1
        /\ \A c \in Clientes : Debitado(c)
        /\ \A r \in Recompensas :
              /\ recompensas[r].canjesRealizados = Cardinality(Vigentes(r))
              /\ recompensas[r].stockInicial # -1 =>
                    recompensas[r].stock =
                        recompensas[r].stockInicial - Cardinality(Vigentes(r))

\* d is floor(monto / gastoRequerido) * puntosOtorgados under the formula of
\* business e, the floor written out as the quotient of the division
EsCredito(d, e, monto) ==
    \E q \in 0..monto :
        /\ q * configuracionPuntos[e].gastoRequerido <= monto
        /\ monto < (q + 1) * configuracionPuntos[e].gastoRequerido
        /\ d = q * configuracionPuntos[e].puntosOtorgados

\* the only request of the run was an agregarPuntos and it was answered 200
UnCreditoExitoso ==
    /\ Quieto /\ ops = 1
    /\ req[1].op = "agregarPuntos" /\ req[1].pc = "fin" /\ req[1].res = "OK"

\* C18 - Credit formula: every credit records, and adds to the copy of the
\* balance it read, exactly floor(monto / gastoRequerido) * puntosOtorgados
\* points under the formula of the business that credits; after a credit that
\* ran alone the customer's puntos and its partition at that business hold
\* that amount (the customer starts at 0).
C18_FormulaDeCredito ==
    /\ \A i \in 1..Len(transacciones) :
          LET tx == transacciones[i] IN
            /\ EsCredito(tx.puntosOtorgados, tx.empresa, tx.monto)
            /\ EsCredito(tx.puntosNuevos - tx.puntosAnteriores, tx.empresa, tx.monto)
    /\ UnCreditoExitoso =>
          /\ Len(transacciones) = 1
          /\ EsCredito(puntos[req[1].cliente], req[1].empresa, transacciones[1].monto)
          /\ EsCredito(PuntosEn(puntosPorEmpresa[req[1].cliente], req[1].empresa),
                       req[1].empresa, transacciones[1].monto)

\* business e1 (100 -> 1) credited an amount of 250: the customer got 2 points
C18_Witness ==
    /\ UnCreditoExitoso
    /\ req[1].empresa = "e1"
    /\ transacciones[1].monto = 250 /\ transacciones[1].puntosOtorgados = 2
    /\ puntos[req[1].cliente] = 2

\* C19 - Amount validation: an agregarPuntos with monto <= 0 is answered
\* "invalid amount" whatever the token, before the token is looked at; the
\* token's usado flag, the balances, the business counter and the transaction
\* log are unchanged.
C19_MontoInvalido ==
    [][\A p \in Procs, e \in Empresas, t \in 1..MaxTokens, m \in Montos :
          (m <= 0 /\ AgregarPuntosValidar(p, e, t, m)) =>
              /\ req'[p].pc = "fin" /\ req'[p].res = "MONTO_INVALIDO"
              /\ UNCHANGED <<ledger, qrTokens, transacciones, totalTransacciones>>]_vars

\* an agregarPuntos was refused for its amount while presenting a token that
\* is valid and stays unused
C19_Witness ==
    \E p \in Procs :
        /\ req[p].pc = "fin" /\ req[p].op = "agregarPuntos"
        /\ req[p].res = "MONTO_INVALIDO"
        /\ validarQR(req[p].token) = "QR_VALID"

\* the transactions that record the credit worker p answered 200
RegistrosDe(p) ==
    {i \in 1..Len(transacciones) :
        /\ transacciones[i].qrToken = req[p].token
        /\ transacciones[i].empresa = req[p].empresa
        /\ transacciones[i].cliente = req[p].cliente
        /\ transacciones[i].puntosOtorgados = req[p].calc
        /\ transacciones[i].puntosNuevos =
              transacciones[i].puntosAnteriores + transacciones[i].puntosOtorgados}

Consume(p) == req[p].op = "agregarPuntos" /\ AgregarPuntosMarcarUsado(p)

\* C21 - Conditional consume: marcarComoUsado marks a token only if it is
\* not usado yet; called on a token that is already usado it reports failure
\* and leaves usado and usadoPor as they are, so usadoPor is never overwritten
\* once set.  (That it marks unexpired tokens only is C5.)
C21_ConsumoCondicional ==
    [][\A p \in Procs :
          (Consume(p) /\ qrTokens[req[p].token].usado) =>
              /\ ~req'[p].marcado
              /\ qrTokens'[req[p].token] = qrTokens[req[p].token]]_vars

\* worker p's agregarPuntos has saved the customer with its points added
Acreditado(p) ==
    /\ req[p].op = "agregarPuntos"
    /\ req[p].pc \in {"incEmpresa", "saveTransaccion", "marcarUsado"}
    /\ req[p].calc > 0

\* C22 - Consume before credit: in every agregarPuntos the token is consumed
\* before a balance is modified or a transaction inserted; in no state has a
\* handler credited the customer for a token, or a transaction been logged
\* for it, while the token is not usado.
C22_ConsumoAntesDeAcreditar ==
    /\ \A p \in Procs : Acreditado(p) => qrTokens[req[p].token].usado
    /\ \A i \in 1..Len(transacciones) : qrTokens[transacciones[i].qrToken].usado

\* everything the database holds
datos == <<puntos, puntosPorEmpresa, activo, totalTransacciones, qrTokens,
           transacciones, recompensas, canjes>>

\* C23 - Validate is read-only: validarQR, called by leerQR or by
\* agregarPuntos, leaves usado and usadoPor of every token, all balances and
\* all other data unchanged whatever it answers, so a token that was read
\* can still be consumed.
C23_ValidarSoloLee ==
    [][\A p \in Procs, e \in Empresas, t \in 1..MaxTokens :
          /\ LeerQR(p, e, t) => UNCHANGED datos
          /\ \A m \in Montos : AgregarPuntosValidar(p, e, t, m) => UNCHANGED datos]_vars

\* a token was read as valid by leerQR and then credited and consumed
C23_Witness ==
    \E p, q \in Procs :
        /\ req[p].pc = "fin" /\ req[p].op = "leerQR" /\ req[p].res = "OK"
        /\ req[q].pc = "fin" /\ req[q].op = "agregarPuntos" /\ req[q].res = "OK"
        /\ req[q].token = req[p].token /\ req[q].marcado
        /\ qrTokens[req[p].token].usado

\* the step answers worker p with the not-found error res and changes no
\* canje, balance, stock or counter
NoEncontrado(p, res) ==
    /\ req'[p].pc = "fin" /\ req'[p].res = res
    /\ UNCHANGED <<ledger, recompensas, canjes>>

\* C25 - Foreign business: marcarEntregado and cancelar called by a business
\* that does not own the canje answer 404 and change neither its estado nor
\* any balance, stock or counter; a canje leaves pendiente only in a step of
\* a request of its own business.
C25_SoloLaEmpresaDuena ==
    [][\A k \in 1..Len(canjes) :
          /\ \A p \in Procs, e \in Empresas :
                canjes[k].empresa # e =>
                    /\ MarcarEntregadoBuscar(p, k, e) => NoEncontrado(p, "NO_ENCONTRADO")
                    /\ CancelarBuscar(p, k, e) =>
                          NoEncontrado(p, "NO_ENCONTRADO_O_NO_CANCELABLE")
          /\ (canjes[k].estado = "pendiente" /\ canjes'[k].estado # "pendiente") =>
                \E p \in Procs :
                    /\ req[p].op \in {"marcarEntregado", "cancelar"}
                    /\ req[p].pc # "fin"
                    /\ req[p].canje = k
                    /\ req[p].empresa = canjes[k].empresa]_vars

\* a business that does not own a pending canje was refused both its delivery
\* and its cancellation, and the canje is still pendiente
C25_Witness ==
    \E p, q \in Procs :
        /\ req[p].pc = "fin" /\ req[p].op = "marcarEntregado"
        /\ req[p].res = "NO_ENCONTRADO"
        /\ req[q].pc = "fin" /\ req[q].op = "cancelar"
        /\ req[q].res = "NO_ENCONTRADO_O_NO_CANCELABLE"
        /\ req[p].canje = req[q].canje /\ req[p].empresa = req[q].empresa
        /\ req[p].canje \in 1..Len(canjes)
        /\ canjes[req[p].canje].empresa # req[p].empresa
        /\ canjes[req[p].canje].estado = "pendiente"

\* the step answers the agregarPuntos of worker p, the first request of the
\* run, with an error
PrimerCreditoFalla(p) ==
    /\ ops = 1
    /\ req[p].op = "agregarPuntos" /\ req[p].pc # "fin"
    /\ req'[p].pc = "fin" /\ req'[p].res # "OK"

\* C27 - Append-only log: no step modifies or deletes a Transaccion, and only
\* a successful agregarPuntos adds one: when the first request of a run is an
\* agregarPuntos that fails, the log it leaves is empty.
C27_RegistroSoloAnexa ==
    [][/\ Len(transacciones') >= Len(transacciones)
       /\ \A i \in 1..Len(transacciones) : transacciones'[i] = transacciones[i]
       /\ \A p \in Procs : PrimerCreditoFalla(p) => transacciones' = <<>>]_vars

\* C30 - Balances are never negative: in every state, also while canjear and
\* cancelar requests interleave, every customer's puntos and the points of
\* every puntosPorEmpresa entry are >= 0.
C30_SaldosNoNegativos ==
    \A c \in Clientes :
        /\ puntos[c] >= 0
        /\ \A i \in 1..Len(puntosPorEmpresa[c]) : puntosPorEmpresa[c][i].puntos >= 0

\* two concurrent canjear of one customer both succeeded and one debit was
\* lost; the balances are still not negative
C30_Witness ==
    \E c \in Clientes :
        /\ DosCanjesExitosos(c) /\ ~Debitado(c)
        /\ puntos[c] >= 0
        /\ \A i \in 1..Len(puntosPorEmpresa[c]) : puntosPorEmpresa[c][i].puntos >= 0

\* C29 - Unique redemption codes: no two canjes ever share a codigoCanje, and
\* a canjear whose generated code is already held by a canje is answered
\* with an error, creates no canje and debits no points.
C29_CodigosUnicos ==
    [][/\ \A j, k \in 1..Len(canjes') :
             canjes'[j].codigoCanje = canjes'[k].codigoCanje => j = k
       /\ \A p \in Procs :
             (CanjearGuardarCanje(p) /\ Len(canjes') = Len(canjes)) =>
                 /\ req'[p].pc = "fin" /\ req'[p].res = "ERROR_500"
                 /\ UNCHANGED <<ledger, recompensas, canjes>>]_vars

\* a canjear drew the code of an existing canje and was refused; a canje with
\* another code was created in the same run
C29_Witness ==
    /\ \E p \in Procs :
          /\ req[p].pc = "fin" /\ req[p].op = "canjear"
          /\ req[p].res = "ERROR_500" /\ req[p].fallo = "codigoDuplicado"
    /\ Len(canjes) = 2
    /\ canjes[1].codigoCanje # canjes[2].codigoCanje

\* C24 - Only writers of balances: every step that changes a customer's
\* puntos or puntosPorEmpresa is the cliente.save() of agregarPuntos, canjear
\* or cancelar; generarQR, leerQR, marcarEntregado, the catalog handlers and
\* actualizarPerfil (and the notifications, part of the handlers' last step)
\* leave them unchanged.
C24_SoloEscritoresDeSaldo ==
    [][(puntos' # puntos \/ puntosPorEmpresa' # puntosPorEmpresa) =>
          \E p \in Procs : \/ AgregarPuntosGuardarCliente(p)
                            \/ CanjearGuardarCliente(p)
                            \/ CancelarGuardarCliente(p)]_vars

\* a token was issued, a canje delivered and a reward deleted, and the
\* customer's balances are the initial ones
C24_Witness ==
    /\ qrTokens # <<>>
    /\ \E p, q \in Procs :
          /\ req[p].pc = "fin" /\ req[p].op = "marcarEntregado" /\ req[p].res = "OK"
          /\ req[q].pc = "fin" /\ req[q].op = "eliminar" /\ req[q].res = "OK"
    /\ puntos["c1"] = 8
    /\ puntosPorEmpresa["c1"] =
          << [empresa |-> "e1", puntos |-> 6], [empresa |-> "e2", puntos |-> 2] >>

\* the handlers that notify once their writes are done
Notifican == {"agregarPuntos", "canjear", "marcarEntregado", "cancelar"}

\* C26 - Notifier failures never affect the ledger: the last step of
\* agregarPuntos, canjear, marcarEntregado and cancelar answers success and
\* leaves the balances, the transaction log, the canje's estado and the stock
\* as its own write made them, whether the notification is delivered, finds
\* no socket or throws.
C26_AvisoSinEfecto ==
    [][\A p \in Procs :
          /\ AgregarPuntosMarcarUsado(p) =>
                /\ req'[p].res = "OK"
                /\ qrTokens' = marcarComoUsado(req[p].token, req[p].empresa)
                /\ UNCHANGED <<ledger, transacciones, recompensas, canjes>>
          /\ (CanjearGuardarRecompensa(p) /\ Existe(req[p].recompensa)) =>
                /\ req'[p].res = "OK"
                /\ recompensas'[req[p].recompensa].canjesRealizados =
                      reservar(req[p].rec).canjesRealizados
                /\ req[p].rec.stock # -1 =>
                      recompensas'[req[p].recompensa].stock = reservar(req[p].rec).stock
                /\ UNCHANGED <<ledger, transacciones, canjes, qrTokens>>
          /\ MarcarEntregadoGuardar(p) =>
                /\ req'[p].res = "OK"
                /\ canjes'[req[p].canje].estado = "entregado"
                /\ UNCHANGED <<ledger, transacciones, recompensas, qrTokens>>
          /\ CancelarGuardarCanje(p) =>
                /\ req'[p].res = "OK"
                /\ canjes'[req[p].canje].estado = "cancelado"
                /\ UNCHANGED <<ledger, transacciones, recompensas, qrTokens>>]_vars

\* a credit succeeded although its notification was not delivered, and a
\* redemption, delivery or cancellation succeeded with its notification sent
C26_Witness ==
    \E p, q \in Procs :
        /\ req[p].pc = "fin" /\ req[p].op = "agregarPuntos" /\ req[p].res = "OK"
        /\ ~req[p].notificado
        /\ req[q].pc = "fin" /\ req[q].op \in Notifican \ {"agregarPuntos"}
        /\ req[q].res = "OK" /\ req[q].notificado

\* C28 - Frozen reward snapshot: the detalleRecompensa a canje gets is that
\* of the reward as canjear read it, and no later step (catalog update or
\* deletion, marcarEntregado, cancelar) changes the detalleRecompensa or the
\* puntosCanjeados of an existing canje.
C28_DetalleCongelado ==
    [][/\ \A k \in 1..Len(canjes) :
             /\ k <= Len(canjes')
             /\ canjes'[k].detalleRecompensa = canjes[k].detalleRecompensa
             /\ canjes'[k].puntosCanjeados = canjes[k].puntosCanjeados
       /\ \A p \in Procs :
             (CanjearGuardarCanje(p) /\ Len(canjes') > Len(canjes)) =>
                 canjes'[Len(canjes')].detalleRecompensa.nombre = req[p].rec.nombre]_vars

\* the reward of a canje was renamed after the redemption and the canje then
\* delivered or cancelled: the canje still carries the old name
C28_Witness ==
    \E k \in 1..Len(canjes) :
        /\ canjes[k].estado \in Terminal
        /\ canjes[k].detalleRecompensa.nombre = "cafe"
        /\ recompensas[canjes[k].recompensa].nombre = "te"

\* C31 - Expiry boundary: a token is usable only strictly before expiraEn; at a
\* time equal to (or after) expiraEn validarQR does not answer valid.
C31_LimiteDeExpiracion ==
    \A t \in 1..Len(qrTokens) :
        now >= qrTokens[t].expiraEn => validarQR(t) # "QR_VALID"

\* token t has a document, is past expiraEn, is consumed
Hay(t) == t \in 1..Len(qrTokens) /\ qrTokens[t].documento = "guardado"
Pasado(t) == now > qrTokens[t].expiraEn
Consumido(t) == qrTokens[t].usado

\* the first four outcomes of a validation, in the order of precedence
PrimerosResultados(res, t) ==
    /\ res = "QR_NOT_FOUND" <=> ~Hay(t)
    /\ res = "QR_EXPIRED" <=> (Hay(t) /\ Pasado(t))
    /\ res = "QR_USED" <=> (Hay(t) /\ ~Pasado(t) /\ Consumido(t))

\* C32 as stated - validarQR answers one of five outcomes: not found without a
\* document, else expired past expiraEn (even if consumed), else used if
\* consumed, else customer inactive if the customer is inactive, else valid.
C32_Precedencia_Original ==
    [][\A p \in Procs, e \in Empresas, t \in 1..MaxTokens :
          LeerQR(p, e, t) =>
              LET res == req'[p].res
                  sigue == Hay(t) /\ ~Pasado(t) /\ ~Consumido(t)
              IN  /\ res \in {"OK", "QR_NOT_FOUND", "QR_EXPIRED", "QR_USED",
                              "CLIENT_INACTIVE"}
                  /\ PrimerosResultados(res, t)
                  /\ res = "CLIENT_INACTIVE" <=>
                        (sigue /\ activo[qrTokens[t].clienteId] = "no")
                  /\ res = "OK" <=>
                        (sigue /\ activo[qrTokens[t].clienteId] # "no")]_vars

\* C32 - validarQR answers exactly one of six outcomes, decided in this order:
\* not found without a document, else expired past expiraEn (even if
\* consumed), else used if consumed, else customer not found if the account
\* is gone, else customer inactive if it is inactive, else valid.
C32_Precedencia ==
    [][\A p \in Procs, e \in Empresas, t \in 1..MaxTokens :
          LeerQR(p, e, t) =>
              LET res == req'[p].res
                  sigue == Hay(t) /\ ~Pasado(t) /\ ~Consumido(t)
              IN  /\ res \in {"OK", "QR_NOT_FOUND", "QR_EXPIRED", "QR_USED",
                              "CLIENT_NOT_FOUND", "CLIENT_INACTIVE"}
                  /\ PrimerosResultados(res, t)
                  /\ res = "CLIENT_NOT_FOUND" <=>
                        (sigue /\ activo[qrTokens[t].clienteId] = "eliminado")
                  /\ res = "CLIENT_INACTIVE" <=>
                        (sigue /\ activo[qrTokens[t].clienteId] = "no")
                  /\ res = "OK" <=>
                        (sigue /\ activo[qrTokens[t].clienteId] = "si")]_vars

\* leerQR answered expired for a token that is consumed as well, and the
\* customer is inactive
C32_Witness ==
    \E p \in Procs :
        /\ req[p].pc = "fin" /\ req[p].op = "leerQR" /\ req[p].res = "QR_EXPIRED"
        /\ Hay(req[p].token) /\ Consumido(req[p].token)
        /\ activo[qrTokens[req[p].token].clienteId] = "no"

\* what validarQR would answer for t if no document were ever purged
validarSinPurga(t) ==
    IF t \notin 1..Len(qrTokens) THEN "QR_NOT_FOUND"
    ELSE IF Pasado(t) THEN "QR_EXPIRED"
    ELSE IF Consumido(t) THEN "QR_USED"
    ELSE IF activo[qrTokens[t].clienteId] = "eliminado" THEN "CLIENT_NOT_FOUND"
    ELSE IF activo[qrTokens[t].clienteId] # "si" THEN "CLIENT_INACTIVE"
    ELSE "QR_VALID"

\* C36 - Validity does not depend on reclamation: limpiarExpirados and the TTL
\* index purge only tokens whose expiraEn is in the past, and validarQR
\* answers valid for a token exactly when it would had no purge ever run.
C36_PurgaSinEfecto ==
    \A t \in 1..Len(qrTokens) :
        /\ qrTokens[t].documento = "purgado" => qrTokens[t].expiraEn < now
        /\ (validarQR(t) = "QR_VALID") <=> (validarSinPurga(t) = "QR_VALID")

\* one token has been purged while another one is valid
C36_Witness ==
    \E t, u \in 1..Len(qrTokens) :
        /\ qrTokens[t].documento = "purgado"
        /\ validarQR(u) = "QR_VALID"

\* validarQR answers expired, used or not found for the issued token t
Invalido(t) ==
    t \in 1..Len(qrTokens) /\ validarQR(t) \in {"QR_EXPIRED", "QR_USED", "QR_NOT_FOUND"}

\* C39 - Token invalidity is permanent: once validarQR answers expired, used
\* or not found for an issued token, it answers one of these three after
\* every later step, never valid; and every issued token gets there as the
\* clock advances.
C39_InvalidezPermanente ==
    /\ [][\A t \in 1..MaxTokens : Invalido(t) => Invalido(t)']_vars
    /\ \A t \in 1..MaxTokens : (t <= Len(qrTokens)) ~> Invalido(t)

\* leerQR found a token valid, a credit then consumed it, and it has since been
\* purged: validarQR went from valid to used to not found
C39_Witness ==
    \E p, q \in Procs :
        /\ req[p].pc = "fin" /\ req[p].op = "leerQR" /\ req[p].res = "OK"
        /\ req[q].pc = "fin" /\ req[q].op = "agregarPuntos" /\ req[q].res = "OK"
        /\ req[q].token = req[p].token
        /\ qrTokens[req[p].token].usado
        /\ qrTokens[req[p].token].documento = "purgado"

\* C33 - Exact debit: the cliente.save() of a canjear of a reward that costs r
\* at business B lowers the customer's puntos by exactly r and the points
\* held at B by exactly r.
C33_DebitoExacto ==
    [][\A p \in Procs :
          CanjearGuardarCliente(p) =>
              LET c == req[p].cliente
                  r == req[p].rec.puntosRequeridos
                  B == req[p].rec.empresa
              IN  /\ puntos'[c] = puntos[c] - r
                  /\ PuntosEn(puntosPorEmpresa'[c], B) =
                        PuntosEn(puntosPorEmpresa[c], B) - r]_vars

\* C34 - Exact refund: the cliente.save() of a cancelar raises the customer's
\* puntos and the points held at the canje's business by exactly the
\* puntosCanjeados recorded in the canje, whatever the reward has become.
C34_DevolucionExacta ==
    [][\A p \in Procs :
          CancelarGuardarCliente(p) =>
              LET k == req[p].canje
                  c == canjes[k].cliente
                  B == canjes[k].empresa
              IN  /\ puntos'[c] = puntos[c] + canjes[k].puntosCanjeados
                  /\ PuntosEn(puntosPorEmpresa'[c], B) =
                        PuntosEn(puntosPorEmpresa[c], B) + canjes[k].puntosCanjeados]_vars

\* C35 - Stock accounting: canjear and cancelar leave the stock of an unlimited
\* reward at -1; on a finite reward canjear lowers the stock by 1 and cancelar
\* raises it by 1; canjear raises canjesRealizados by 1, cancelar lowers it
\* by 1 (not below 0), and canjesRealizados is never negative.
C35_ContabilidadDeStock ==
    [][/\ \A r \in Recompensas : recompensas[r].canjesRealizados >= 0
                                  /\ recompensas'[r].canjesRealizados >= 0
       /\ \A p \in Procs :
             LET r == req[p].recompensa
                 ant == recompensas[r]
             IN  (CanjearGuardarRecompensa(p) /\ req'[p].res = "OK") =>
                     /\ recompensas'[r].stock =
                           IF ant.stock = -1 THEN -1 ELSE ant.stock - 1
                     /\ recompensas'[r].canjesRealizados = ant.canjesRealizados + 1
       /\ \A p \in Procs :
             LET r == req[p].doc.recompensa
                 ant == recompensas[r]
             IN  (CancelarGuardarRecompensa(p) /\ req'[p].pc = "saveCanje") =>
                     /\ recompensas'[r].stock =
                           IF ant.stock = -1 THEN -1 ELSE ant.stock + 1
                     /\ recompensas'[r].canjesRealizados =
                           Max(0, ant.canjesRealizados - 1)]_vars

\* C37 - Per-issuer balances form a mapping: a customer never has two
\* puntosPorEmpresa entries of the same business.
C37_UnaEntradaPorEmpresa ==
    \A c \in Clientes :
        \A i, j \in 1..Len(puntosPorEmpresa[c]) :
            puntosPorEmpresa[c][i].empresa = puntosPorEmpresa[c][j].empresa => i = j

\* the points business e credited to customer c according to the transaction log
RECURSIVE AcreditadoEn(_, _, _)
AcreditadoEn(log, c, e) ==
    IF log = <<>> THEN 0
    ELSE (IF Head(log).cliente = c /\ Head(log).empresa = e
          THEN Head(log).puntosOtorgados ELSE 0) + AcreditadoEn(Tail(log), c, e)

\* the points customer c has spent at business e in pending or delivered canjes
RECURSIVE GastadoEn(_, _, _)
GastadoEn(cs, c, e) ==
    IF cs = <<>> THEN 0
    ELSE (IF Head(cs).cliente = c /\ Head(cs).empresa = e /\ Head(cs).estado # "cancelado"
          THEN Head(cs).puntosCanjeados ELSE 0) + GastadoEn(Tail(cs), c, e)

\* C38 - Audit reconciliation: whenever no request is in progress, the points a
\* customer holds at business e equal the points the transaction log says e
\* credited minus the points of the customer's pending or delivered canjes
\* at e.
C38_Conciliacion ==
    Quieto =>
        \A c \in Clientes, e \in Empresas :
            PuntosEn(puntosPorEmpresa[c], e) =
                AcreditadoEn(transacciones, c, e) - GastadoEn(canjes, c, e)

\* of customer c's puntosPorEmpresa, this step touches the entry of business B
\* at most: the other entries stay as they are and in place, a new entry is B's
SoloParticion(c, B) ==
    /\ Len(puntosPorEmpresa'[c]) >= Len(puntosPorEmpresa[c])
    /\ \A i \in 1..Len(puntosPorEmpresa'[c]) :
          IF i <= Len(puntosPorEmpresa[c])
          THEN /\ puntosPorEmpresa'[c][i].empresa = puntosPorEmpresa[c][i].empresa
               /\ puntosPorEmpresa[c][i].empresa # B =>
                     puntosPorEmpresa'[c][i] = puntosPorEmpresa[c][i]
          ELSE puntosPorEmpresa'[c][i].empresa = B

\* C40 - Locality: a step that changes a customer's puntos or puntosPorEmpresa
\* is the save of an agregarPuntos whose token is bound to that customer, or
\* of a canjear or cancelar of that customer, and of the customer's entries
\* it changes only that of the crediting business, resp. of the reward's
\* business; every other customer and entry is unchanged.
C40_EfectosLocales ==
    [][\A c \in ClientesDos :
          (puntos'[c] # puntos[c] \/ puntosPorEmpresa'[c] # puntosPorEmpresa[c]) =>
              \E p \in Procs, B \in Empresas :
                  /\ \/ /\ AgregarPuntosGuardarCliente(p)
                        /\ c = qrTokens[req[p].token].clienteId
                        /\ B = req[p].empresa
                     \/ /\ CanjearGuardarCliente(p)
                        /\ c = req[p].cliente
                        /\ B = recompensas[req[p].recompensa].empresa
                     \/ /\ CancelarGuardarCliente(p)
                        /\ c = canjes[req[p].canje].cliente
                        /\ B = canjes[req[p].canje].empresa
                  /\ SoloParticion(c, B)]_vars

\* c2 was credited by e2 and c1's canje at e1 was cancelled: c2's points at e1
\* and c1's points at e2 are the initial ones
C40_Witness ==
    \E p, q \in Procs :
        /\ req[p].pc = "fin" /\ req[p].op = "agregarPuntos" /\ req[p].res = "OK"
        /\ req[p].cliente = "c2" /\ req[p].empresa = "e2"
        /\ req[q].pc = "fin" /\ req[q].op = "cancelar" /\ req[q].res = "OK"
        /\ puntos = [c \in ClientesDos |-> IF c = "c1" THEN 10 ELSE 17]
        /\ PuntosEn(puntosPorEmpresa["c2"], "e1") = 3
        /\ PuntosEn(puntosPorEmpresa["c1"], "e2") = 2
====
